---- MODULE Spec2Model ----
(***************************************************************************)
(* tello-swarm-async: the control/telemetry protocol engine.               *)
(*                                                                         *)
(* Two sessions share TelloUnit, TelloControlProtocol and                  *)
(* TelloStatusProtocol (src/tello.py):                                     *)
(*   - the strategy session, SwarmManager of src/swarm.py, whose           *)
(*     acknowledgment callback asks a SwarmStrategy for the next command   *)
(*     (specification Spec);                                               *)
(*   - the task-list session, SwarmManager of src/tello.py, which walks a  *)
(*     fixed list of commands per unit next to the proximity poll          *)
(*     (specification TaskSpec).                                           *)
(*                                                                         *)
(* The asyncio event loop is modelled by `ready`, its FIFO queue of        *)
(* handles: a datagram handler resolves a future, which queues the         *)
(* future's done-callback; the callback runs as a step of its own, before  *)
(* the control socket is read again.                                       *)
(***************************************************************************)
EXTENDS Integers, Sequences, FiniteSets, TLC

VARIABLES
    tellos,                   \* SwarmManager.tellos: the ordered list of unit addresses
    strategy,                 \* SwarmManager.strategy: the strategy object and its fields
    tasks,                    \* the `tasks` argument of the task-list session, per unit
    pc,                       \* "init" before start_all_drones, then "running", and
                              \* "stopped" once main() has returned
    started,                  \* TelloUnit.started
    labelled,                 \* TelloUnit.labelled
    finished,                 \* TelloUnit.finished
    detected_marker,          \* TelloUnit.detected_marker
    marker_yaw,               \* TelloUnit.marker_yaw
    marker_xy,                \* TelloUnit.marker_xy
    on_msg_received,          \* TelloUnit.on_msg_received: the unit's current future
    on_message_received_for,  \* TelloControlProtocol.on_message_received_for: its keys
    tellos_last_search_tasks, \* FollowToEndPad.tellos_last_search_tasks
    sent,                     \* per unit, the commands handed to transport.sendto
    answered,                 \* per unit, how many of them the drone has answered
    last_datagram,            \* the last datagram the control socket received
    dups,                     \* datagrams the network has duplicated
    dropped,                  \* the handler of the last control datagram raised (the loop logged it)
    processed,                \* per unit, acknowledgments handed to msg_received_callback
    ready,                    \* the event loop's queue of handles
    closing,                  \* control_transport.close() has been called
    on_con_lost,              \* SwarmManager.on_con_lost: "pending" or "done"
    con_lost_result,          \* the result on_con_lost was fulfilled with
    socket_error,             \* the exception the transport last handed to the protocol
    fulfilled,                \* how many times on_con_lost.set_result was called
    task_list,                \* TelloUnit.task_list (task-list session)
    on_tof_received,          \* TelloUnit.on_tof_received
    on_tof_received_for,      \* TelloControlProtocol.on_tof_received_for: its keys
    front_tof,                \* TelloUnit.front_tof
    polls,                    \* per unit, 'EXT tof?' polls sent that the drone has not answered
    last_status,              \* the last datagram the telemetry socket received, and what
                              \* its handler raised
    guard_landed,             \* per unit, the proximity guard has sent 'land'
    decision,                 \* per unit, what a direct call of next_task returned last
    asked,                    \* per unit, the unit snapshot that call was given
    calls                     \* per unit, search calls since its search index was last absent

vars == <<tellos, strategy, tasks, last_status, con_lost_result, socket_error, decision, asked, calls,
          pc, started, labelled, finished, detected_marker, marker_yaw, marker_xy,
          on_msg_received, on_message_received_for, tellos_last_search_tasks,
          sent, answered, last_datagram, dups, dropped, processed, ready, closing,
          on_con_lost, fulfilled, task_list, on_tof_received, on_tof_received_for,
          front_tof, polls, guard_landed>>

\* What a session is constructed with.
constructed == <<tellos, strategy, tasks>>
\* What only a direct call of the Decision Engine writes.
direct == <<decision, asked>>
\* What only the transport's failure paths and connection_lost write.
outcome == <<con_lost_result, socket_error>>

(***************************************************************************)
(* Bounds of the model.                                                    *)
(***************************************************************************)
\* A drone stops answering once it has been sent this many commands.
MaxSent == 4
\* Datagrams the network duplicates in one run.
MaxDup == 1
\* Consecutive search calls a caller makes for one unit.
MaxCalls == 8

(***************************************************************************)
(* Values.                                                                 *)
(***************************************************************************)
\* Python's None, and a present optional value.
None == <<>>
Some(x) == <<x>>

\* The list of unit addresses a session is constructed with; a unit is its index
\* in the session's list.
tello_ips == <<"192.168.50.50", "192.168.50.54">>
Units == 0 .. (Len(tellos) - 1)
\* An address that belongs to no unit.
Stranger == "192.168.50.99"
Addr(u) == tellos[u + 1]

\* A Python int and a Python list, as the values a strategy is configured with.
PyInt(n) == [type |-> "int", val |-> n]
PyList(l) == [type |-> "list", val |-> l]
\* a != b for an int a and a configured value b: an int never equals a list.
PyNotEqual(a, b) == ~(b.type = "int" /\ b.val = a)

\* FollowToEndPad.__init__: the fields of the strategy object.
FollowToEndPad(path, end, dist, level_1, level_2, spd) ==
    [class |-> "FollowToEndPad",
     path_pad_no |-> path, end_pad_no |-> end, distance_between_pads |-> dist,
     flight_level_1 |-> level_1, flight_level_2 |-> level_2, speed |-> spd]

\* Strategy configuration: single pad numbers.
path_pad_no == 8
end_pad_no == 4
distance_between_pads == 150
flight_level_1 == 50
flight_level_2 == 50
speed == 50
StrategyOfPadNumbers ==
    FollowToEndPad(PyInt(path_pad_no), PyInt(end_pad_no), distance_between_pads,
                   flight_level_1, flight_level_2, speed)

\* Strategy configuration of main(): lists of pad numbers.
path_pads == <<1, 3>>
end_pads == <<5, 6, 7, 8>>
distance == 100
flight_1 == 50
flight_2 == 50
StrategyOfMain ==
    FollowToEndPad(PyList(path_pads), PyList(end_pads), distance, flight_1, flight_2, speed)

\* A SwarmStrategy whose next_task breaks its contract: it answers (True, None).
NoCommandStrategy == [class |-> "NoCommand"]

\* Acknowledgment payloads a drone sends: b'ok', b'error', and one with neither.
AckPayloads == {<<"ok">>, <<"error">>, <<"unknown command">>}
\* Faulty variant: the test misses the payload.
ContainsError_Never(data) == data[1] = "err"

\* b'error' in data
ContainsError(data) == data[1] = "error"
\* b'ok' in data
ContainsOk(data) == data[1] = "ok"

\* Mission-pad ids a telemetry packet carries in its first field.
PadIds == {-1, 8}

\* A future: resolved or not, and whether its done-callback is still registered.
NewFuture == [done |-> FALSE, cb |-> TRUE]

(***************************************************************************)
(* Decision Engine: FollowToEndPad (src/strategies.py).  The revision in   *)
(* src/strategies/follow_to_end.py has the same decision tree and hands    *)
(* the search to FindPadTask (src/tasks/find_pad.py).                      *)
(***************************************************************************)
\* Faulty variant: the sign is kept.
Abs_Identity(x) == x

Abs(x) == IF x < 0 THEN -x ELSE x

\* Faulty variant: only the x offset is looked at.
WithinTolerance_XOnly(xy) == Abs(xy[1]) <= 10

\* abs(marker_x) <= 10 and abs(marker_y) <= 10
WithinTolerance(xy) == Abs(xy[1]) <= 10 /\ Abs(xy[2]) <= 10

movement_commands ==
    << <<"left", 50>>, <<"forward", 20>>, <<"right", 50>>,
       <<"right", 50>>, <<"forward", 20>>, <<"left", 50>> >>

\* Faulty variant: the cycle starts at index 0, with no sentinel.
search_for_pad_index_FromZero(last) ==
    IF last = None THEN Some(0) ELSE Some(last[1] + 1)

\* search_for_pad: the value it leaves in tellos_last_search_tasks[tello].
search_for_pad_index(last) ==
    IF last = None THEN Some(-1) ELSE Some(last[1] + 1)

\* search_for_pad: the command it returns.
search_for_pad(last, search_altitude) ==
    IF last = None
    THEN <<"go", 0, 0, search_altitude, 10>>
    ELSE movement_commands[((last[1] + 1) % 6) + 1]

\* altitude = self.flight_level_1 if index % 2 == 0 else self.flight_level_2
altitude(u) == IF u % 2 = 0 THEN strategy.flight_level_1 ELSE strategy.flight_level_2

\* Faulty variant: a unit in the middle of a sweep goes on sweeping whatever it sees.
next_task_KeepsSweeping(u, marker, yaw, xy, last) ==
    IF marker = None \/ last # None
    THEN [cont |-> TRUE, cmd |-> search_for_pad(last, altitude(u)),
          search |-> search_for_pad_index(last)]
    ELSE [cont |-> FALSE, cmd |-> None, search |-> last]

\* next_task: (should_continue, next_task) and the unit's search index afterwards.
\* Arguments: the unit's index, its sensed state (marker and yaw optional, xy None
\* or the pair (x, y)) and its search index.
next_task(u, marker, yaw, xy, last) ==
    IF marker = None
    THEN [cont |-> TRUE, cmd |-> search_for_pad(last, altitude(u)),
          search |-> search_for_pad_index(last)]
    ELSE IF PyNotEqual(marker[1], strategy.end_pad_no)
    THEN IF yaw = None
         THEN [cont |-> FALSE, cmd |-> None, search |-> last]
         ELSE IF Abs(yaw[1]) >= 10
         THEN [cont |-> TRUE,
               cmd |-> <<IF yaw[1] > 0 THEN "cw" ELSE "ccw", Abs(yaw[1])>>,
               search |-> None]
         ELSE [cont |-> TRUE,
               cmd |-> <<"go", strategy.distance_between_pads, 0, altitude(u),
                         strategy.speed, strategy.path_pad_no>>,
               search |-> None]
    ELSE IF xy = None
    THEN [cont |-> FALSE, cmd |-> None, search |-> last]
    ELSE IF WithinTolerance(xy)
    THEN [cont |-> FALSE, cmd |-> None, search |-> last]
    ELSE [cont |-> TRUE,
          cmd |-> <<"go", 0, 0, altitude(u), strategy.speed, strategy.end_pad_no>>,
          search |-> last]

(***************************************************************************)
(* Construction.                                                           *)
(***************************************************************************)
\* TelloUnit.__init__ and TelloControlProtocol.__init__, common to both sessions.
InitCommon ==
    /\ pc = "init"
    /\ started = [u \in Units |-> FALSE]
    /\ detected_marker = [u \in Units |-> None]
    /\ on_message_received_for = {}
    /\ on_tof_received_for = {}
    /\ sent = [u \in Units |-> <<>>]
    /\ answered = [u \in Units |-> 0]
    /\ last_datagram = None
    /\ last_status = None
    /\ dups = 0
    /\ dropped = FALSE
    /\ processed = [u \in Units |-> 0]
    /\ ready = <<>>
    /\ closing = FALSE
    /\ on_con_lost = "pending"
    /\ con_lost_result = None
    /\ socket_error = None
    /\ fulfilled = 0
    /\ front_tof = [u \in Units |-> 0]
    /\ polls = [u \in Units |-> 0]
    /\ guard_landed = [u \in Units |-> FALSE]
    /\ decision = [u \in Units |-> None]
    /\ asked = [u \in Units |-> None]
    /\ calls = [u \in Units |-> 0]

\* The fields of the strategy session's TelloUnit that src/tello.py does not declare.
InitUnitFlags ==
    /\ labelled = [u \in Units |-> FALSE]
    /\ finished = [u \in Units |-> FALSE]
    /\ marker_yaw = [u \in Units |-> None]
    /\ marker_xy = [u \in Units |-> None]

\* SwarmManager(loop, tello_ips, strategy) of src/swarm.py: one unit per address,
\* one future per unit with its callback registered; the strategy object is new.
SwarmManager(ips, strat) ==
    /\ tellos = ips
    /\ strategy = strat
    /\ tasks = None
    /\ InitCommon
    /\ InitUnitFlags
    /\ on_msg_received = [u \in Units |-> NewFuture]
    /\ on_tof_received = [u \in Units |-> NewFuture]
    /\ tellos_last_search_tasks = [u \in Units |-> None]
    /\ task_list = [u \in Units |-> <<>>]

Init == SwarmManager(tello_ips, StrategyOfPadNumbers)

(***************************************************************************)
(* TelloControlProtocol (src/tello.py).                                    *)
(***************************************************************************)
\* data[0:4] == b'tof '
IsTof(data) == data[1] = "tof"

\* A handle of the event loop: a future's done-callback with the unit it was
\* registered for and the future's result, or the transport's connection_lost.
Handle(h, u, data) == [h |-> h, unit |-> u, data |-> data]

\* Faulty variant: the address is not looked at.
UnitAt_Any(addr) == CHOOSE u \in Units : TRUE

\* The unit whose address is addr.
UnitAt(addr) == CHOOSE u \in Units : Addr(u) = addr

\* Faulty variant: set_result on a resolved future goes through and runs the callback again.
SlotOutstanding_NoDoneCheck(keys, future, addr) == addr \in keys

\* self.on_message_received_for[addr[0]].set_result(data) succeeds: the address is
\* a key and the future bound to it is not resolved yet.  Otherwise the lookup
\* raises KeyError or set_result raises InvalidStateError.
SlotOutstanding(keys, future, addr) == addr \in keys /\ ~future[UnitAt(addr)].done

\* datagram_received(data, addr).  When it raises, the event loop logs the
\* exception and goes on.
datagram_received(data, addr) ==
    IF IsTof(data)
    THEN /\ IF SlotOutstanding(on_tof_received_for, on_tof_received, addr)
            THEN /\ on_tof_received' = [on_tof_received EXCEPT ![UnitAt(addr)].done = TRUE]
                 /\ ready' = IF on_tof_received[UnitAt(addr)].cb
                             THEN Append(ready, Handle("tof", UnitAt(addr), data))
                             ELSE ready
                 /\ dropped' = FALSE
            ELSE /\ dropped' = TRUE
                 /\ UNCHANGED <<on_tof_received, ready>>
         /\ UNCHANGED on_msg_received
    ELSE /\ IF SlotOutstanding(on_message_received_for, on_msg_received, addr)
            THEN /\ on_msg_received' = [on_msg_received EXCEPT ![UnitAt(addr)].done = TRUE]
                 /\ ready' = IF on_msg_received[UnitAt(addr)].cb
                             THEN Append(ready, Handle("msg", UnitAt(addr), data))
                             ELSE ready
                 /\ dropped' = FALSE
            ELSE /\ dropped' = TRUE
                 /\ UNCHANGED <<on_msg_received, ready>>
         /\ UNCHANGED on_tof_received

\* The control socket is read: the transport is open, the session has not
\* ended, and the callbacks queued by the previous datagram have run.
ControlReadable ==
    /\ pc = "running" /\ ~closing /\ on_con_lost = "pending"
    /\ ready = <<>>

(***************************************************************************)
(* The drones and the network.                                             *)
(***************************************************************************)
\* A datagram on the wire: its source address and its payload.
Datagram(addr, data) == [addr |-> addr, data |-> data]

\* Drone u answers the oldest command it has not answered yet, and the
\* acknowledgment reaches the control socket.
AckArrives(u, payload) ==
    /\ ControlReadable
    /\ answered[u] < Len(sent[u])
    /\ Len(sent[u]) <= MaxSent
    /\ answered' = [answered EXCEPT ![u] = @ + 1]
    /\ last_datagram' = Datagram(Addr(u), payload)
    /\ datagram_received(payload, Addr(u))
    /\ UNCHANGED <<pc, started, labelled, finished, detected_marker, marker_yaw,
                   marker_xy, on_message_received_for, tellos_last_search_tasks, sent,
                   dups, processed, closing, on_con_lost, fulfilled, task_list,
                   on_tof_received_for, front_tof, polls, guard_landed>>
    /\ UNCHANGED <<constructed, last_status, direct, outcome, calls>>

\* The network delivers a second copy of the datagram it delivered last.
DuplicateArrives ==
    /\ ControlReadable
    /\ dups < MaxDup
    /\ last_datagram # None
    /\ dups' = dups + 1
    /\ datagram_received(last_datagram.data, last_datagram.addr)
    /\ UNCHANGED <<pc, started, labelled, finished, detected_marker, marker_yaw,
                   marker_xy, on_message_received_for, tellos_last_search_tasks, sent,
                   answered, last_datagram, processed, closing, on_con_lost, fulfilled,
                   task_list, on_tof_received_for, front_tof, polls, guard_landed>>
    /\ UNCHANGED <<constructed, last_status, direct, outcome, calls>>

\* A datagram whose source address is no unit's reaches the control socket.
StrayControlDatagram ==
    /\ ControlReadable
    /\ last_datagram' = Datagram(Stranger, <<"ok">>)
    /\ datagram_received(<<"ok">>, Stranger)
    /\ UNCHANGED <<pc, started, labelled, finished, detected_marker, marker_yaw,
                   marker_xy, on_message_received_for, tellos_last_search_tasks, sent,
                   answered, dups, processed, closing, on_con_lost, fulfilled,
                   task_list, on_tof_received_for, front_tof, polls, guard_landed>>
    /\ UNCHANGED <<constructed, last_status, direct, outcome, calls>>

\* connection_lost(exc): fulfils on_conn_lost with True whatever exc is; main()
\* then returns and the loop ends.  The handle carries exc.
ConnectionLost ==
    /\ ready # <<>> /\ Head(ready).h = "connection_lost"
    /\ ready' = Tail(ready)
    /\ on_con_lost' = "done"
    /\ con_lost_result' = Some(TRUE)
    /\ socket_error' = IF Head(ready).data = None THEN socket_error ELSE Head(ready).data
    /\ fulfilled' = fulfilled + 1
    /\ UNCHANGED <<pc, started, labelled, finished, detected_marker, marker_yaw,
                   marker_xy, on_msg_received, on_message_received_for,
                   tellos_last_search_tasks, sent, answered, last_datagram, dups, dropped,
                   processed, closing, task_list, on_tof_received,
                   on_tof_received_for, front_tof, polls, guard_landed>>
    /\ UNCHANGED <<constructed, last_status, direct, calls>>

\* main() resumes from `await manager.on_con_lost` and returns; asyncio.run stops
\* the loop, and no socket is read any more.
MainReturns ==
    /\ pc = "running" /\ on_con_lost = "done"
    /\ pc' = "stopped"
    /\ UNCHANGED <<started, labelled, finished, detected_marker, marker_yaw,
                   marker_xy, on_msg_received, on_message_received_for,
                   tellos_last_search_tasks, sent, answered, last_datagram, dups, dropped,
                   processed, ready, closing, on_con_lost, fulfilled, task_list,
                   on_tof_received, on_tof_received_for, front_tof, polls, guard_landed>>
    /\ UNCHANGED <<constructed, last_status, direct, outcome, calls>>

\* Exceptions of the control socket: an OSError of recvfrom or sendto, which the
\* transport hands to error_received, and any other one, which is fatal to it.
OSErrors == {"ConnectionRefusedError"}
FatalErrors == {"MemoryError"}

\* error_received(exc): prints the exception.
ErrorReceived(exc) ==
    /\ pc = "running" /\ ~closing /\ on_con_lost = "pending"
    /\ socket_error' = Some(exc)
    /\ UNCHANGED <<pc, started, labelled, finished, detected_marker, marker_yaw,
                   marker_xy, on_msg_received, on_message_received_for,
                   tellos_last_search_tasks, sent, answered, last_datagram, dups, dropped,
                   processed, ready, closing, on_con_lost, fulfilled, task_list,
                   on_tof_received, on_tof_received_for, front_tof, polls, guard_landed>>
    /\ UNCHANGED <<constructed, last_status, direct, con_lost_result, calls>>

\* The transport meets a fatal error: it closes itself and schedules
\* connection_lost(exc).
TransportFails(exc) ==
    /\ pc = "running" /\ ~closing /\ on_con_lost = "pending"
    /\ closing' = TRUE
    /\ ready' = Append(ready, Handle("connection_lost", -1, Some(exc)))
    /\ UNCHANGED <<pc, started, labelled, finished, detected_marker, marker_yaw,
                   marker_xy, on_msg_received, on_message_received_for,
                   tellos_last_search_tasks, sent, answered, last_datagram, dups, dropped,
                   processed, on_con_lost, fulfilled, task_list,
                   on_tof_received, on_tof_received_for, front_tof, polls, guard_landed>>
    /\ UNCHANGED <<constructed, last_status, direct, outcome, calls>>

(***************************************************************************)
(* TelloStatusProtocol (src/tello.py).                                     *)
(***************************************************************************)
\* int(mid) if int(mid) > 0 else None
DecodeMarker(mid) == IF mid > 0 THEN Some(mid) ELSE None

\* datagram_received(data, addr) for the address of unit u and a packet whose
\* first field is 'mid:<mid>'.  No code closes status_transport: the socket is
\* read as long as the loop runs.
StatusDatagramReceived(u, mid) ==
    /\ pc = "running"
    /\ detected_marker' = [detected_marker EXCEPT ![u] = DecodeMarker(mid)]
    /\ UNCHANGED <<pc, started, labelled, finished, marker_yaw, marker_xy,
                   on_msg_received, on_message_received_for, tellos_last_search_tasks,
                   sent, answered, last_datagram, dups, dropped, processed, ready, closing,
                   on_con_lost, fulfilled, task_list, on_tof_received,
                   on_tof_received_for, front_tof, polls, guard_landed>>
    /\ UNCHANGED <<constructed, last_status, direct, outcome, calls>>

\* A telemetry payload is the sequence of its characters.
DigitChars == <<"0", "1", "2", "3", "4", "5", "6", "7", "8", "9">>
IsDigit(c) == \E d \in 1 .. 10 : DigitChars[d] = c
DigitValue(c) == (CHOOSE d \in 1 .. 10 : DigitChars[d] = c) - 1

\* s.find(c) + 1: the position of the first c in s, 0 when there is none.
Find(s, c) ==
    IF \E i \in 1 .. Len(s) : s[i] = c
    THEN CHOOSE i \in 1 .. Len(s) : s[i] = c /\ \A j \in 1 .. (i - 1) : s[j] # c
    ELSE 0

\* s.split(c)[0]: what precedes the first c, the whole of s when there is none.
SplitFirst(s, c) == IF Find(s, c) = 0 THEN s ELSE SubSeq(s, 1, Find(s, c) - 1)

\* s.split(c)[1]: what lies between the first c and the next; IndexError when
\* s holds no c.
SplitSecond(s, c) ==
    IF Find(s, c) = 0
    THEN [ok |-> FALSE, val |-> <<>>]
    ELSE [ok |-> TRUE, val |-> SplitFirst(SubSeq(s, Find(s, c) + 1, Len(s)), c)]

\* s.strip(), for the blank.
RECURSIVE Strip(_)
Strip(s) ==
    IF s = <<>> THEN s
    ELSE IF s[1] = " " THEN Strip(Tail(s))
    ELSE IF s[Len(s)] = " " THEN Strip(SubSeq(s, 1, Len(s) - 1))
    ELSE s

RECURSIVE DecimalValue(_)
DecimalValue(s) ==
    IF s = <<>> THEN 0
    ELSE 10 * DecimalValue(SubSeq(s, 1, Len(s) - 1)) + DigitValue(s[Len(s)])

\* Faulty variant: a sign is not accepted.
int_Unsigned(s) ==
    LET body == Strip(s) IN
    IF body # <<>> /\ \A i \in 1 .. Len(body) : IsDigit(body[i])
    THEN [ok |-> TRUE, val |-> DecimalValue(body)]
    ELSE [ok |-> FALSE, val |-> 0]

\* int(s) for a str: blanks around, an optional sign, decimal digits; anything
\* else raises ValueError.
int(s) ==
    LET t == Strip(s)
        signed == t # <<>> /\ t[1] \in {"-", "+"}
        body == IF signed THEN Tail(t) ELSE t
    IN
    IF body # <<>> /\ \A i \in 1 .. Len(body) : IsDigit(body[i])
    THEN [ok |-> TRUE,
          val |-> IF signed /\ t[1] = "-" THEN -DecimalValue(body) ELSE DecimalValue(body)]
    ELSE [ok |-> FALSE, val |-> 0]

\* What the handler does with (data, addr): "ignored" for an address of no
\* unit, the exception it raises, or "applied" with the marker it stores.
StatusOutcome(data, addr) ==
    IF ~\E u \in Units : Addr(u) = addr
    THEN [result |-> "ignored", marker |-> None]
    ELSE LET mid == SplitSecond(SplitFirst(data, ";"), ":") IN
         IF ~mid.ok
         THEN [result |-> "IndexError", marker |-> None]
         ELSE IF ~int(mid.val).ok
         THEN [result |-> "ValueError", marker |-> None]
         ELSE [result |-> "applied", marker |-> DecodeMarker(int(mid.val).val)]

\* datagram_received(data, addr) of the telemetry socket, on the packet as it
\* comes off the wire.  When it raises, the event loop logs the exception and
\* goes on.
StatusDatagram(addr, data) ==
    /\ pc = "running"
    /\ LET o == StatusOutcome(data, addr) IN
       /\ last_status' = [addr |-> addr, data |-> data, result |-> o.result]
       /\ IF o.result = "applied"
          THEN detected_marker' = [detected_marker EXCEPT ![UnitAt(addr)] = o.marker]
          ELSE UNCHANGED detected_marker
    /\ UNCHANGED <<pc, started, labelled, finished, marker_yaw, marker_xy,
                   on_msg_received, on_message_received_for, tellos_last_search_tasks,
                   sent, answered, last_datagram, dups, dropped, processed, ready, closing,
                   on_con_lost, fulfilled, task_list, on_tof_received,
                   on_tof_received_for, front_tof, polls, guard_landed>>
    /\ UNCHANGED <<constructed, direct, outcome, calls>>

(***************************************************************************)
(* The strategy session: SwarmManager (src/swarm.py).                      *)
(***************************************************************************)
\* label = chr(97 + self.tellos.index(tello)); the command carries its code point.
LabelCommand(u) == <<"EXT mled s r", 97 + u>>

\* Faulty variant: any(...) in place of all(...).
AllFinished_Any(f) == \E t \in Units : f[t]

\* all(tello.finished for tello in self.tellos)
AllFinished(f) == \A t \in Units : f[t]

\* start_all_drones: 'command' to every unit; send_command binds the unit's
\* future under its address.
StartAllDrones ==
    /\ pc = "init"
    /\ pc' = "running"
    /\ sent' = [u \in Units |-> Append(sent[u], <<"command">>)]
    /\ on_message_received_for' = {Addr(u) : u \in Units}
    /\ UNCHANGED <<started, labelled, finished, detected_marker, marker_yaw, marker_xy,
                   on_msg_received, tellos_last_search_tasks, answered, last_datagram, dups,
                   dropped, processed, ready, closing, on_con_lost, fulfilled,
                   task_list, on_tof_received, on_tof_received_for, front_tof, polls,
                   guard_landed>>
    /\ UNCHANGED <<constructed, last_status, direct, outcome, calls>>

\* Faulty variant: the label is sent before the takeoff.
OkStep_LabelFirst(u, r) ==
    IF ~labelled[u] THEN "label"
    ELSE IF ~started[u] THEN "takeoff"
    ELSE IF r.cont /\ ~finished[u]
         THEN IF r.cmd = None THEN "raise" ELSE "next"
         ELSE "land"

\* What the 'ok' branch of msg_received_callback does for unit u, given the
\* strategy's answer r: "takeoff", "label", "raise", "next" or "land".
OkStep(u, r) ==
    IF ~started[u] THEN "takeoff"
    ELSE IF ~labelled[u] THEN "label"
    ELSE IF r.cont /\ ~finished[u]
         THEN IF r.cmd = None THEN "raise" ELSE "next"
         ELSE "land"

\* The command the step sends, if it sends one.
StepCommand(step, u, r) ==
    CASE step = "takeoff" -> <<"takeoff">>
      [] step = "label" -> LabelCommand(u)
      [] step = "next" -> r.cmd
      [] step = "land" -> <<"land">>
      [] OTHER -> None

\* Faulty variant: sending 'land' leaves the flag alone.
FinishedAfter_Unchanged(step, was) == was

\* The unit's finished flag after the 'ok' branch took the step.
FinishedAfter(step, was) == IF step = "land" THEN TRUE ELSE was

\* self.strategy.next_task(tello, data, self.tellos)
StrategyNextTask(u) ==
    IF strategy.class = "FollowToEndPad"
    THEN next_task(u, detected_marker[u], marker_yaw[u], marker_xy[u],
                   tellos_last_search_tasks[u])
    ELSE [cont |-> TRUE, cmd |-> None, search |-> tellos_last_search_tasks[u]]

\* The search calls of a unit since its index was last absent, after a call of
\* next_task that found the index at `last` and left it at `after`.
CallsAfter(c, last, after) ==
    IF after = None THEN 0
    ELSE IF after = last THEN c
    ELSE IF last = None THEN 1 ELSE c + 1

\* msg_received_callback(tello, received_future), the done-callback at the head
\* of the loop's queue.
MsgReceivedCallback ==
    /\ ready # <<>> /\ Head(ready).h = "msg"
    /\ LET u == Head(ready).unit
           data == Head(ready).data
           r == StrategyNextTask(u)
           step == OkStep(u, r)
           cmd == StepCommand(step, u, r)
       IN
       /\ processed' = [processed EXCEPT ![u] = @ + 1]
       /\ IF ContainsError(data)
          THEN /\ finished' = [finished EXCEPT ![u] = TRUE]
               /\ ready' = Tail(ready)
               /\ UNCHANGED <<started, labelled, on_msg_received,
                              on_message_received_for, tellos_last_search_tasks,
                              calls, sent, closing>>
          ELSE IF ContainsOk(data)
          THEN /\ tellos_last_search_tasks' =
                      [tellos_last_search_tasks EXCEPT ![u] = r.search]
               /\ calls' = [calls EXCEPT ![u] =
                               CallsAfter(@, tellos_last_search_tasks[u], r.search)]
               /\ started' = [started EXCEPT ![u] = TRUE]
               /\ labelled' = [labelled EXCEPT ![u] = (step # "takeoff")]
               /\ finished' = [finished EXCEPT ![u] = FinishedAfter(step, @)]
               /\ IF cmd = None
                  THEN UNCHANGED <<on_msg_received, on_message_received_for, sent>>
                  ELSE /\ on_msg_received' = [on_msg_received EXCEPT ![u] = NewFuture]
                       /\ on_message_received_for' = on_message_received_for \cup {Addr(u)}
                       /\ sent' = [sent EXCEPT ![u] = Append(@, cmd)]
               /\ IF step = "land" /\ AllFinished(finished')
                  THEN /\ closing' = TRUE
                       /\ ready' = IF closing THEN Tail(ready)
                                   ELSE Append(Tail(ready),
                                               Handle("connection_lost", -1, None))
                  ELSE /\ ready' = Tail(ready)
                       /\ UNCHANGED closing
          ELSE /\ ready' = Tail(ready)
               /\ UNCHANGED <<started, labelled, finished, on_msg_received,
                              on_message_received_for, tellos_last_search_tasks,
                              calls, sent, closing>>
    /\ UNCHANGED <<pc, detected_marker, marker_yaw, marker_xy, answered, last_datagram, dups,
                   dropped, on_con_lost, fulfilled, task_list, on_tof_received,
                   on_tof_received_for, front_tof, polls, guard_landed>>
    /\ UNCHANGED <<constructed, last_status, direct, outcome>>

Next ==
    \/ StartAllDrones
    \/ \E u \in Units, payload \in AckPayloads : AckArrives(u, payload)
    \/ DuplicateArrives
    \/ StrayControlDatagram
    \/ MsgReceivedCallback
    \/ ConnectionLost
    \/ MainReturns
    \/ \E u \in Units, mid \in PadIds : StatusDatagramReceived(u, mid)

Spec == Init /\ [][Next]_vars

\* The strategy session on a control socket that can fail.
SocketNext ==
    \/ StartAllDrones
    \/ \E u \in Units, payload \in AckPayloads : AckArrives(u, payload)
    \/ MsgReceivedCallback
    \/ ConnectionLost
    \/ MainReturns
    \/ \E u \in Units, mid \in PadIds : StatusDatagramReceived(u, mid)
    \/ \E exc \in OSErrors : ErrorReceived(exc)
    \/ \E exc \in FatalErrors : TransportFails(exc)

SocketSpec == Init /\ [][SocketNext]_vars

\* The strategy session constructed with a strategy that breaks the contract of
\* next_task.  No unit is ever sent 'land', so the socket is never closed.
ContractInit == SwarmManager(tello_ips, NoCommandStrategy)

ContractNext ==
    \/ StartAllDrones
    \/ \E u \in Units, payload \in AckPayloads : AckArrives(u, payload)
    \/ DuplicateArrives
    \/ StrayControlDatagram
    \/ MsgReceivedCallback
    \/ \E u \in Units, mid \in PadIds : StatusDatagramReceived(u, mid)

ContractSpec == ContractInit /\ [][ContractNext]_vars

\* A session of three units in which no telemetry ever reports a marker and the
\* drones answer every command with b'ok'.
three_tello_ips == <<"192.168.50.50", "192.168.50.51", "192.168.50.54">>

ScenarioInit == SwarmManager(three_tello_ips, StrategyOfPadNumbers)

ScenarioNext ==
    \/ StartAllDrones
    \/ \E u \in Units : AckArrives(u, <<"ok">>)
    \/ MsgReceivedCallback

ScenarioSpec == ScenarioInit /\ [][ScenarioNext]_vars

\* Telemetry packets as they come off the wire: b'mid:8;x:0;' and b'mid:-1;x:0;',
\* and malformed ones: b'mid8;x:0;' with no 'key:value' in the first field, and
\* b'mid:a;x:0;' whose pad id is no number.
StatusPackets ==
    { <<"m", "i", "d", ":", "8", ";", "x", ":", "0", ";">>,
      <<"m", "i", "d", ":", "-", "1", ";", "x", ":", "0", ";">>,
      <<"m", "i", "d", "8", ";", "x", ":", "0", ";">>,
      <<"m", "i", "d", ":", "a", ";", "x", ":", "0", ";">> }

\* What a host that is no unit sends to the telemetry port.
StrayPackets == { <<"m", "i", "d", ":", "8", ";", "x", ":", "0", ";">> }

\* The strategy session with the telemetry socket fed raw packets, from the
\* units and from a stranger; the drones answer every command with b'ok'.
TelemetryNext ==
    \/ StartAllDrones
    \/ \E u \in Units : AckArrives(u, <<"ok">>)
    \/ MsgReceivedCallback
    \/ ConnectionLost
    \/ MainReturns
    \/ \E u \in Units, data \in StatusPackets : StatusDatagram(Addr(u), data)
    \/ \E data \in StrayPackets : StatusDatagram(Stranger, data)

TelemetrySpec == Init /\ [][TelemetryNext]_vars

\* The strategy session on a network that delivers every datagram once and
\* only datagrams of the units.
IsolationNext ==
    \/ StartAllDrones
    \/ \E u \in Units, payload \in AckPayloads : AckArrives(u, payload)
    \/ MsgReceivedCallback
    \/ ConnectionLost
    \/ MainReturns
    \/ \E u \in Units, mid \in PadIds : StatusDatagramReceived(u, mid)

IsolationSpec == Init /\ [][IsolationNext]_vars

(***************************************************************************)
(* The Decision Engine called directly, on units whose sensed fields the   *)
(* caller sets.                                                            *)
(***************************************************************************)
\* What next_task reads of a unit: detected_marker, marker_yaw, marker_xy.
Snapshot(u) == <<detected_marker[u], marker_yaw[u], marker_xy[u]>>

\* The caller sets the sensed fields of unit u.
SetSensed(u, snap) ==
    /\ pc = "init"
    /\ Snapshot(u) # snap
    /\ detected_marker' = [detected_marker EXCEPT ![u] = snap[1]]
    /\ marker_yaw' = [marker_yaw EXCEPT ![u] = snap[2]]
    /\ marker_xy' = [marker_xy EXCEPT ![u] = snap[3]]
    /\ UNCHANGED <<pc, started, labelled, finished, on_msg_received,
                   on_message_received_for, tellos_last_search_tasks, sent, answered,
                   last_datagram, dups, dropped, processed, ready, closing,
                   on_con_lost, fulfilled, task_list, on_tof_received,
                   on_tof_received_for, front_tof, polls, guard_landed>>
    /\ UNCHANGED <<constructed, last_status, direct, outcome, calls>>

\* strategy.next_task(tello, data, tellos), called for unit u.
NextTaskCalled(u) ==
    /\ pc = "init"
    /\ detected_marker[u] = None => calls[u] < MaxCalls
    /\ LET r == next_task(u, detected_marker[u], marker_yaw[u], marker_xy[u],
                          tellos_last_search_tasks[u])
       IN
       /\ decision' = [decision EXCEPT ![u] = Some(<<r.cont, r.cmd>>)]
       /\ asked' = [asked EXCEPT ![u] = Some(Snapshot(u))]
       /\ tellos_last_search_tasks' =
              [tellos_last_search_tasks EXCEPT ![u] = r.search]
       /\ calls' = [calls EXCEPT ![u] =
                       CallsAfter(@, tellos_last_search_tasks[u], r.search)]
    /\ UNCHANGED <<pc, started, labelled, finished, detected_marker, marker_yaw,
                   marker_xy, on_msg_received, on_message_received_for, sent, answered,
                   last_datagram, dups, dropped, processed, ready, closing,
                   on_con_lost, fulfilled, task_list, on_tof_received,
                   on_tof_received_for, front_tof, polls, guard_landed>>
    /\ UNCHANGED <<constructed, last_status, outcome>>

\* Snapshots of a unit that loses and finds markers: no marker; a path pad,
\* aligned; a path pad without yaw; the end pad off centre.
SearchSnapshots ==
    { <<None, None, None>>,
      <<Some(path_pad_no), Some(0), <<0, 0>>>>,
      <<Some(path_pad_no), None, None>>,
      <<Some(end_pad_no), Some(0), <<40, 0>>>> }

SearchNext ==
    \/ \E u \in Units, snap \in SearchSnapshots : SetSensed(u, snap)
    \/ \E u \in Units : NextTaskCalled(u)

SearchSpec == Init /\ [][SearchNext]_vars

\* The address list of main(): one address per entry of macs.
main_ips == <<"192.168.51.1">>

\* Sensed values next_task is called on, around its thresholds.
EngineMarkers == {None, Some(1), Some(4), Some(5), Some(8)}
EngineYaws == {None, Some(-30), Some(-10), Some(-9), Some(9), Some(10), Some(30)}
EngineOffsets == {None, <<3, -4>>, <<40, 0>>, <<10, -10>>, <<0, 11>>, <<-11, 0>>}
EngineSnapshots == EngineMarkers \X EngineYaws \X EngineOffsets

\* A strategy of either configuration and one unit; the caller sets the unit's
\* sensed fields, then calls next_task.
EngineInit ==
    \E strat \in {StrategyOfPadNumbers, StrategyOfMain} : SwarmManager(main_ips, strat)

EngineNext ==
    \/ \E u \in Units, snap \in EngineSnapshots : asked[u] = None /\ SetSensed(u, snap)
    \/ \E u \in Units : NextTaskCalled(u)

EngineSpec == EngineInit /\ [][EngineNext]_vars

(***************************************************************************)
(* The task-list session: SwarmManager (src/tello.py).                     *)
(***************************************************************************)
\* The task lists a session is constructed with (the `tasks` dict of main()).
TaskLists ==
    { << <<"takeoff">>, <<"land">> >>,
      << <<"takeoff">>, <<"EXT led", 0, 255, 0>>, <<"land">> >> }

\* Front ranges (mm) a drone reports to 'EXT tof?'.
TofRanges == {300, 800}

\* SwarmManager.__init__: per unit a task list, an acknowledgment future and a
\* proximity future, both with their callback registered.
TaskInit ==
    /\ tellos = tello_ips
    /\ strategy = None
    /\ InitCommon
    /\ InitUnitFlags
    /\ on_msg_received = [u \in Units |-> NewFuture]
    /\ on_tof_received = [u \in Units |-> NewFuture]
    /\ tellos_last_search_tasks = [u \in Units |-> None]
    /\ task_list \in [Units -> TaskLists]
    /\ tasks = task_list

\* start_all_drones: 'command' and the first 'EXT tof?' to every unit.
TaskStartAllDrones ==
    /\ pc = "init"
    /\ pc' = "running"
    /\ sent' = [u \in Units |-> Append(sent[u], <<"command">>)]
    /\ on_message_received_for' = {Addr(u) : u \in Units}
    /\ polls' = [u \in Units |-> polls[u] + 1]
    /\ on_tof_received_for' = {Addr(u) : u \in Units}
    /\ UNCHANGED <<started, labelled, finished, detected_marker, marker_yaw, marker_xy,
                   on_msg_received, tellos_last_search_tasks, answered, last_datagram,
                   dups, dropped, processed, ready, closing, on_con_lost, fulfilled,
                   task_list, on_tof_received, front_tof, guard_landed>>
    /\ UNCHANGED <<constructed, last_status, direct, outcome, calls>>

\* Drone u answers a proximity poll, and the answer reaches the control socket.
TofArrives(u, range) ==
    /\ ControlReadable
    /\ polls[u] > 0
    /\ polls' = [polls EXCEPT ![u] = @ - 1]
    /\ last_datagram' = Datagram(Addr(u), <<"tof", range>>)
    /\ datagram_received(<<"tof", range>>, Addr(u))
    /\ UNCHANGED <<pc, started, labelled, finished, detected_marker, marker_yaw,
                   marker_xy, on_message_received_for, tellos_last_search_tasks, sent,
                   answered, dups, processed, closing, on_con_lost, fulfilled,
                   task_list, on_tof_received_for, front_tof, guard_landed>>
    /\ UNCHANGED <<constructed, last_status, direct, outcome, calls>>

\* all(len(tello.task_list) == 0 for tello in self.tellos)
AllTasksDone(lists) == \A t \in Units : lists[t] = <<>>

\* msg_received_callback(tello, received_future) of the task-list session.
TaskMsgReceivedCallback ==
    /\ ready # <<>> /\ Head(ready).h = "msg"
    /\ LET u == Head(ready).unit
           popped == IF started[u] THEN Tail(task_list[u]) ELSE task_list[u]
       IN
       /\ processed' = [processed EXCEPT ![u] = @ + 1]
       /\ IF started[u] /\ task_list[u] = <<>>
          THEN \* task_list.pop(0) raises IndexError
               /\ ready' = Tail(ready)
               /\ UNCHANGED <<started, task_list, on_msg_received,
                              on_message_received_for, sent, closing>>
          ELSE /\ started' = [started EXCEPT ![u] = TRUE]
               /\ task_list' = [task_list EXCEPT ![u] = popped]
               /\ IF popped # <<>>
                  THEN /\ on_msg_received' = [on_msg_received EXCEPT ![u] = NewFuture]
                       /\ on_message_received_for' = on_message_received_for \cup {Addr(u)}
                       /\ sent' = [sent EXCEPT ![u] = Append(@, Head(popped))]
                       /\ ready' = Tail(ready)
                       /\ UNCHANGED closing
                  ELSE /\ UNCHANGED <<on_msg_received, on_message_received_for, sent>>
                       /\ IF AllTasksDone(task_list')
                          THEN /\ closing' = TRUE
                               /\ ready' = IF closing THEN Tail(ready)
                                           ELSE Append(Tail(ready),
                                                       Handle("connection_lost", -1, None))
                          ELSE /\ ready' = Tail(ready)
                               /\ UNCHANGED closing
    /\ UNCHANGED <<pc, labelled, finished, detected_marker, marker_yaw, marker_xy,
                   tellos_last_search_tasks, answered, last_datagram, dups, dropped,
                   on_con_lost, fulfilled, on_tof_received, on_tof_received_for,
                   front_tof, polls, guard_landed>>
    /\ UNCHANGED <<constructed, last_status, direct, outcome, calls>>

\* functools.partial(f, t) == functools.partial(f, t): partial objects compare by
\* identity, and remove_done_callback is handed a new one.
PartialEq == FALSE

\* future.remove_done_callback(functools.partial(self.msg_received_callback, tello))
remove_done_callback(future) == [future EXCEPT !.cb = IF PartialEq THEN FALSE ELSE @]

\* tello.front_tof < 500
TooClose(range) == range < 500

\* tof_received_callback(tello, received_future): the Proximity Guard.
TofReceivedCallback ==
    /\ ready # <<>> /\ Head(ready).h = "tof"
    /\ ready' = Tail(ready)
    /\ LET u == Head(ready).unit
           range == Head(ready).data[2]
       IN
       /\ front_tof' = [front_tof EXCEPT ![u] = range]
       /\ IF TooClose(range)
          THEN /\ sent' = [sent EXCEPT ![u] = Append(@, <<"land">>)]
               /\ on_message_received_for' = on_message_received_for \cup {Addr(u)}
               /\ on_msg_received' =
                      [on_msg_received EXCEPT ![u] = remove_done_callback(@)]
               /\ guard_landed' = [guard_landed EXCEPT ![u] = TRUE]
               /\ UNCHANGED <<on_tof_received, on_tof_received_for, polls>>
          ELSE /\ on_tof_received' = [on_tof_received EXCEPT ![u] = NewFuture]
               /\ on_tof_received_for' = on_tof_received_for \cup {Addr(u)}
               /\ polls' = [polls EXCEPT ![u] = @ + 1]
               /\ UNCHANGED <<sent, on_message_received_for, on_msg_received,
                              guard_landed>>
    /\ UNCHANGED <<pc, started, labelled, finished, detected_marker, marker_yaw,
                   marker_xy, tellos_last_search_tasks, answered, last_datagram, dups,
                   dropped, processed, closing, on_con_lost, fulfilled, task_list>>
    /\ UNCHANGED <<constructed, last_status, direct, outcome, calls>>

TaskNext ==
    \/ TaskStartAllDrones
    \/ \E u \in Units, payload \in AckPayloads : AckArrives(u, payload)
    \/ \E u \in Units, range \in TofRanges : TofArrives(u, range)
    \/ DuplicateArrives
    \/ StrayControlDatagram
    \/ TaskMsgReceivedCallback
    \/ TofReceivedCallback
    \/ ConnectionLost

\* The task-list session reads no sensed state (it only prints detected_marker),
\* so its specification leaves the telemetry socket out.
TaskSpec == TaskInit /\ [][TaskNext]_vars

(***************************************************************************)
(* Properties.                                                             *)
(***************************************************************************)
\* Control commands sent to unit u whose acknowledgment no callback has processed.
Unacknowledged(u) == Len(sent[u]) - processed[u]

Last(s) == s[Len(s)]

\* The done-callback at the head of the loop's queue is the acknowledgment
\* callback of unit u, and this step runs it.
RunsMsgCallback(u) ==
    /\ ready # <<>> /\ Head(ready).h = "msg" /\ Head(ready).unit = u
    /\ processed'[u] = processed[u] + 1

C2_CompletionOnceWhenAllFinished ==
    /\ fulfilled <= 1
    /\ on_con_lost = "done" => (fulfilled = 1 /\ \A u \in Units : finished[u])

\* C2 witness: the completion signal has been fulfilled.
C2_Witness == on_con_lost = "done" /\ fulfilled = 1

\* C3 as stated: whenever every unit is finished, whichever way, the session has
\* closed the control socket (the close happens in the step that finishes the
\* last unit).
C3_AllFinishedClosesSocket == (\A u \in Units : finished[u]) => closing

\* The first token of the commands a Decision Engine returns.
EngineCommandHeads == {"go", "left", "right", "forward", "cw", "ccw"}

\* C4: per unit the commands go out in lifecycle order, one per acknowledgment:
\* 'command', then 'takeoff', then the label command with the character
\* 'a' + index, and only from the fourth command on Decision Engine commands
\* or 'land'; every command after 'command' is sent by the callback of a
\* success acknowledgment of that unit; started, labelled and finished are
\* never reset.
C4_LifecycleOrder ==
    /\ [](\A u \in Units :
            LET s == sent[u] IN
            /\ Len(s) >= 1 => s[1] = <<"command">>
            /\ Len(s) >= 2 => s[2] = <<"takeoff">>
            /\ Len(s) >= 3 => s[3] = <<"EXT mled s r", 97 + u>>
            /\ \A i \in 4 .. Len(s) :
                 s[i] = <<"land">> \/ s[i][1] \in EngineCommandHeads
            /\ started[u] = (Len(s) >= 2)
            /\ labelled[u] = (Len(s) >= 3)
            /\ Len(s) <= processed[u] + 1)
    /\ [][\A u \in Units :
            (sent'[u] # sent[u] /\ pc # "init") =>
              (RunsMsgCallback(u) /\ Head(ready).data = <<"ok">>)]_vars
    /\ [][\A u \in Units :
            /\ started[u] => started'[u]
            /\ labelled[u] => labelled'[u]
            /\ finished[u] => finished'[u]]_vars

\* C4 witness: a unit went through the whole lifecycle: a Decision Engine
\* command after the label, then 'land'.
C4_Witness ==
    \E u \in Units :
        /\ Len(sent[u]) = 5
        /\ sent[u][4][1] \in EngineCommandHeads
        /\ sent[u][5] = <<"land">>
        /\ finished[u]

\* No callback is pending for unit u and its future is resolved: nothing can
\* trigger a lifecycle step of u.
Excluded(u) ==
    /\ finished[u]
    /\ on_msg_received[u].done
    /\ \A i \in 1 .. Len(ready) : ready[i].unit # u

\* C5: the callback of an acknowledgment containing 'error' sets the unit's
\* finished flag in that step, sends nothing and binds no new slot; from then
\* on no command is ever sent to that unit; and the callback of a success
\* acknowledgment of any unit still sends that unit its next command.
C5_ErrorFinishesUnitOnly ==
    /\ [][\A u \in Units :
            (RunsMsgCallback(u) /\ Head(ready).data = <<"error">>) =>
              /\ finished'[u]
              /\ sent' = sent
              /\ on_msg_received' = on_msg_received
              /\ Excluded(u)']_vars
    /\ [][\A u \in Units :
            Excluded(u) => (Excluded(u)' /\ sent'[u] = sent[u])]_vars
    /\ [][\A v \in Units :
            (RunsMsgCallback(v) /\ Head(ready).data = <<"ok">>) =>
              Len(sent'[v]) = Len(sent[v]) + 1]_vars

\* C5 witness: a unit was finished by an error acknowledgment of 'command' and
\* further acknowledgments of it were dropped, while another unit went on to
\* its Decision Engine commands.
C5_Witness ==
    \E u, v \in Units :
        /\ u # v
        /\ Excluded(u) /\ sent[u] = << <<"command">> >> /\ answered[u] = 1
        /\ Len(sent[v]) >= 4 /\ ~finished[v]

HasLand(u) == \E i \in 1 .. Len(sent[u]) : sent[u][i] = <<"land">>

FirstLand(u) ==
    CHOOSE i \in 1 .. Len(sent[u]) :
        sent[u][i] = <<"land">> /\ \A j \in 1 .. (i - 1) : sent[u][j] # <<"land">>

\* C6 as stated: a unit that was sent 'land' is finished only once the
\* acknowledgment of that 'land' has been processed.
C6_FinishedOnlyAfterLandAck ==
    \A u \in Units :
        (finished[u] /\ HasLand(u)) => processed[u] >= FirstLand(u)

\* C6 (amended): a unit that finishes through the normal flow gets its finished
\* flag in the very step that sends its 'land', while that 'land' is still
\* unacknowledged; a unit that has been sent 'land' is finished.
C6_FinishedWhenLandIsSent ==
    /\ [](\A u \in Units : HasLand(u) => finished[u])
    /\ [][\A u \in Units :
            (~finished[u] /\ finished'[u]) =>
              /\ RunsMsgCallback(u)
              /\ \/ Head(ready).data = <<"error">>
                 \/ /\ sent'[u] = Append(sent[u], <<"land">>)
                    /\ Len(sent'[u]) - processed'[u] = 1]_vars

\* C6 witness: a unit is finished and the drone has not even answered its 'land'.
C6_Witness ==
    \E u \in Units :
        /\ finished[u] /\ Last(sent[u]) = <<"land">>
        /\ answered[u] < Len(sent[u])
        /\ processed[u] < FirstLand(u)

\* C7 as stated: a second copy of an acknowledgment triggers no lifecycle step,
\* so the commands issued to a unit after 'command' never outnumber the
\* acknowledgments the unit itself sent.
C7_DuplicateAckDropped ==
    \A u \in Units : Len(sent[u]) - 1 <= answered[u]

\* This step hands a datagram to the control protocol.
ControlDatagramStep ==
    \/ answered' # answered
    \/ dups' # dups
    \/ last_datagram' # last_datagram
    \/ dropped' # dropped

\* No acknowledgment slot is outstanding for the address: no command was ever
\* sent to it, or the future bound to it is already resolved.
NoOutstandingSlot(addr) ==
    \/ addr \notin on_message_received_for
    \/ \E u \in Units : Addr(u) = addr /\ on_msg_received[u].done

\* C8: a control datagram from an address with no outstanding acknowledgment
\* slot is dropped: the handler raises, which the loop logs; no flag, slot,
\* sensed value or queue changes and nothing is sent; the control socket stays
\* readable afterwards.
C8_UnmatchedDatagramDropped ==
    /\ [][(ControlDatagramStep /\ NoOutstandingSlot(last_datagram'.addr)) =>
            /\ dropped'
            /\ UNCHANGED <<started, labelled, finished, detected_marker, marker_yaw,
                           marker_xy, on_msg_received, on_message_received_for,
                           tellos_last_search_tasks, sent, processed, ready,
                           closing, on_con_lost, fulfilled>>]_vars
    /\ [](dropped => (ready = <<>> /\ ~closing /\ on_con_lost = "pending"))

\* C8 witness: a second copy of the error acknowledgment of a unit has just
\* been dropped, and the unit is as the error left it.
C8_Witness ==
    \E u \in Units :
        /\ dropped /\ dups = 1
        /\ last_datagram = Datagram(Addr(u), <<"error">>)
        /\ Excluded(u) /\ sent[u] = << <<"command">> >>

\* C9 as stated: the callback of an acknowledgment with neither 'error' nor 'ok'
\* issues the unit's next command and binds a new slot, as for 'ok'.
C9_DataAckAdvances ==
    [][\A u \in Units :
         (RunsMsgCallback(u) /\ Head(ready).data = <<"unknown command">>) =>
           (Len(sent'[u]) = Len(sent[u]) + 1 /\ ~on_msg_received'[u].done)]_vars

\* C10 as stated: once the Proximity Guard has sent 'land' to a unit, no
\* further command is sent to that unit.
C10_GuardLandEndsLoop ==
    [][\A u \in Units : guard_landed[u] => sent'[u] = sent[u]]_vars

\* C11 as stated: once the transport has handed the protocol a socket failure
\* (error_received, or connection_lost with an exception), the session has
\* ended: on_con_lost is fulfilled, with a result other than the True of a
\* normal shutdown.
C11_SocketFailureEndsWithFailure ==
    socket_error # None => (on_con_lost = "done" /\ con_lost_result # Some(TRUE))

\* The strategy answers the next acknowledgment of unit u with continue = true
\* and no command.
BreaksContract(u) ==
    LET r == StrategyNextTask(u) IN r.cont /\ r.cmd = None

\* C12 as stated: when the Decision Engine answers a success acknowledgment of a
\* unit, in whatever lifecycle state, with continue = true and no command, the
\* callback sends no command and the session stops: it closes the control
\* socket or fulfils the completion signal.
C12_ContractViolationIsFatal ==
    [][\A u \in Units :
         (RunsMsgCallback(u) /\ Head(ready).data = <<"ok">> /\ BreaksContract(u)) =>
           /\ sent' = sent
           /\ closing' \/ on_con_lost' = "done"]_vars

\* The altitude-seek command of the search: 'go 0 0 <z> 10'.
IsSeek(cmd) == Len(cmd) = 5 /\ cmd[1] = "go" /\ cmd[2] = 0 /\ cmd[3] = 0 /\ cmd[5] = 10

\* C13 as stated: in the three-unit session without markers, the commands a unit
\* is sent after 'command', 'takeoff' and the label are the altitude-seek
\* command, then left, forward, right, right, forward, left with period 6; so
\* 'land' is never among them.
C13_SearchScenarioSequence ==
    \A u \in Units :
        \A i \in 4 .. Len(sent[u]) :
            IF i = 4 THEN IsSeek(sent[u][i])
            ELSE sent[u][i] = movement_commands[((i - 5) % 6) + 1]

\* This step is a direct call of next_task for unit u.
CallsNextTask(u) ==
    \/ asked'[u] # asked[u]
    \/ decision'[u] # decision[u]
    \/ tellos_last_search_tasks'[u] # tellos_last_search_tasks[u]

\* The sweep as the search sub-task is specified.
ClaimedSweep ==
    << <<"left", 50>>, <<"forward", 20>>, <<"right", 50>>,
       <<"right", 50>>, <<"forward", 20>>, <<"left", 50>> >>

\* C14: counting a unit's search calls from the last moment its cycle index was
\* absent, the 1st call returns the altitude-seek command and leaves the index
\* at -1, the n-th call (n >= 2) returns element (n-2) mod 6 of the sweep and
\* leaves the index at n-2; a call for one unit leaves the indices of the
\* other units alone.
C14_SearchPattern ==
    /\ [](\A u \in Units :
            IF calls[u] = 0
            THEN tellos_last_search_tasks[u] = None
            ELSE tellos_last_search_tasks[u] = Some(calls[u] - 2))
    /\ [][\A u \in Units :
            (CallsNextTask(u) /\ detected_marker[u] = None) =>
              /\ calls'[u] = calls[u] + 1
              /\ decision'[u][1][1] = TRUE
              /\ IF calls'[u] = 1
                 THEN /\ IsSeek(decision'[u][1][2])
                      /\ tellos_last_search_tasks'[u] = Some(-1)
                 ELSE decision'[u][1][2] = ClaimedSweep[((calls'[u] - 2) % 6) + 1]
              /\ \A v \in Units \ {u} :
                   tellos_last_search_tasks'[v] = tellos_last_search_tasks[v]]_vars

\* C14 witness: the 8th consecutive search call of a unit returned 'left 50',
\* element 0 again, while another unit has only made its first call.
C14_Witness ==
    \E u, v \in Units :
        /\ u # v
        /\ calls[u] = 8 /\ tellos_last_search_tasks[u] = Some(6)
        /\ decision[u] = Some(<<TRUE, <<"left", 50>>>>)
        /\ calls[v] = 1 /\ tellos_last_search_tasks[v] = Some(-1)

\* C15 as stated: a call of next_task for a unit that sees a marker, path pad or
\* end pad, and has searched before leaves the unit's search index reset, so
\* that its next search starts with the altitude-seek command.
C15_MarkerVisibleResetsSearch ==
    [][\A u \in Units :
         (CallsNextTask(u) /\ detected_marker[u] # None
            /\ tellos_last_search_tasks[u] # None) =>
           tellos_last_search_tasks'[u] = None]_vars

\* C16 as stated: a call of next_task on the snapshot the previous call for the
\* unit was given returns what that call returned.
C16_SameSnapshotSameDecision ==
    [][\A u \in Units :
         (CallsNextTask(u) /\ asked[u] = Some(Snapshot(u))) =>
           decision'[u] = decision[u]]_vars

\* Values the search index of a unit takes.
SearchIndices == {None} \cup {Some(i) : i \in -1 .. (MaxCalls - 2)}

\* C16 (amended): for a snapshot that shows a marker the answer of next_task is
\* the same whatever the unit's search index, that is, whatever calls came
\* before, and a repeated call on that snapshot repeats the answer.  (For a
\* snapshot without a marker the answer follows the unit's search index.)
C16_DeterministicWhenMarkerVisible ==
    /\ [](\A u \in Units :
            detected_marker[u] # None =>
              \A last \in SearchIndices :
                LET a == next_task(u, detected_marker[u], marker_yaw[u], marker_xy[u], last)
                    b == next_task(u, detected_marker[u], marker_yaw[u], marker_xy[u],
                                   tellos_last_search_tasks[u])
                IN a.cont = b.cont /\ a.cmd = b.cmd)
    /\ [][\A u \in Units :
            (CallsNextTask(u) /\ asked[u] = Some(Snapshot(u))
               /\ detected_marker[u] # None) =>
              decision'[u] = decision[u]]_vars

\* C16 witness: a unit that has searched was asked twice in a row with the end
\* pad in sight, its search index still present.
C16_Witness ==
    \E u \in Units :
        /\ detected_marker[u] = Some(end_pad_no)
        /\ asked[u] = Some(Snapshot(u))
        /\ tellos_last_search_tasks[u] # None
        /\ decision[u] = Some(<<TRUE, <<"go", 0, 0, 50, 50, PyInt(end_pad_no)>>>>)

\* The snapshot and the answer of the last direct call for unit u.
AskedMarker(u) == asked[u][1][1]
AskedYaw(u) == asked[u][1][2]
AskedXY(u) == asked[u][1][3]
Continue(u) == decision[u][1][1]
Command(u) == decision[u][1][2]

\* The pad numbers the strategy is configured with as end pads.
EndPadSet ==
    IF strategy.end_pad_no.type = "int"
    THEN {strategy.end_pad_no.val}
    ELSE {strategy.end_pad_no.val[i] : i \in 1 .. Len(strategy.end_pad_no.val)}

\* A forward hop: 'go <x> 0 <z> <speed> m<pad>' with x > 0.
IsForwardHop(cmd) == cmd # None /\ cmd[1] = "go" /\ cmd[2] > 0
\* A rotation: 'cw <deg>' or 'ccw <deg>'.
IsRotation(cmd) == cmd # None /\ cmd[1] \in {"cw", "ccw"}

IsEndPadNumber(m) == strategy.end_pad_no = PyInt(m)

\* The centering command: 'go 0 0 <altitude> <speed> m<pad>'.
Centering(u, m) == <<"go", 0, 0, altitude(u), strategy.speed, PyInt(m)>>

\* C18 as stated: called on the end pad, next_task returns continue = false if
\* and only if |x| <= 10 and |y| <= 10, and in every other case continue = true
\* with the centering command.
C18_LandIffCentred ==
    \A u \in Units :
        (asked[u] # None /\ AskedMarker(u) # None /\ IsEndPadNumber(AskedMarker(u)[1])) =>
          LET xy == AskedXY(u)
              centred == xy # None /\ xy[1] >= -10 /\ xy[1] <= 10
                                   /\ xy[2] >= -10 /\ xy[2] <= 10
          IN IF centred
             THEN ~Continue(u)
             ELSE decision[u] = Some(<<TRUE, Centering(u, AskedMarker(u)[1])>>)

\* C18 (amended): called on the end pad, next_task returns continue = false if
\* and only if the offset is missing or |x| <= 10 and |y| <= 10; with an offset
\* outside the tolerance it returns continue = true with the centering command.
C18_LandIffCentredOrNoOffset ==
    \A u \in Units :
        (asked[u] # None /\ AskedMarker(u) # None /\ IsEndPadNumber(AskedMarker(u)[1])) =>
          LET xy == AskedXY(u)
              centred == xy # None /\ xy[1] >= -10 /\ xy[1] <= 10
                                   /\ xy[2] >= -10 /\ xy[2] <= 10
          IN IF xy = None \/ centred
             THEN decision[u] = Some(<<FALSE, None>>)
             ELSE decision[u] = Some(<<TRUE, Centering(u, AskedMarker(u)[1])>>)

\* C18 witness: the end pad seen at (0, 11), just outside the tolerance in y:
\* the centering command.
C18_Witness ==
    \E u \in Units :
        /\ asked[u] # None
        /\ AskedMarker(u) = Some(4) /\ AskedXY(u) = <<0, 11>>
        /\ decision[u] = Some(<<TRUE, <<"go", 0, 0, 50, 50, PyInt(4)>>>>)

\* C19 as stated: with the end pads {5, 6, 7, 8} and the path pads {1, 3} of
\* main(), a call on a member of the end-pad set takes the end-pad branch: at
\* offset (3, -4) continue = false, at (40, 0) the centering command for that
\* pad, and never a rotation or a forward hop.
C19_EndPadSetMembers ==
    \A u \in Units :
        (strategy = StrategyOfMain /\ asked[u] # None /\ AskedMarker(u) # None
           /\ AskedMarker(u)[1] \in EndPadSet) =>
          /\ AskedXY(u) = <<3, -4>> => ~Continue(u)
          /\ AskedXY(u) = <<40, 0>> =>
                decision[u] = Some(<<TRUE, Centering(u, AskedMarker(u)[1])>>)
          /\ ~IsRotation(Command(u)) /\ ~IsForwardHop(Command(u))

\* C20 as stated: the three sensed marker fields of a unit are written together:
\* absent together after a packet with pad id <= 0 (and before any packet),
\* present together after a packet with pad id > 0.
C20_MarkerFieldsTogether ==
    \A u \in Units :
        IF detected_marker[u] = None
        THEN marker_xy[u] = None /\ marker_yaw[u] = None
        ELSE marker_xy[u] # None /\ marker_yaw[u] # None

\* Everything but the record of the last telemetry datagram.
session ==
    <<constructed, direct, outcome, calls, pc, started, labelled, finished,
      detected_marker, marker_yaw, marker_xy, on_msg_received, on_message_received_for,
      tellos_last_search_tasks, sent, answered, last_datagram, dups, dropped, processed,
      ready, closing, on_con_lost, fulfilled, task_list, on_tof_received,
      on_tof_received_for, front_tof, polls, guard_landed>>

\* Records a telemetry datagram may carry, as the channel is specified: the
\* malformed ones, and the well-formed ones with the marker they report.
MalformedRecords ==
    { <<"m", "i", "d", "8", ";", "x", ":", "0", ";">>,
      <<"m", "i", "d", ":", "a", ";", "x", ":", "0", ";">> }
ReportedMarker(data) ==
    CASE data = <<"m", "i", "d", ":", "8", ";", "x", ":", "0", ";">> -> Some(8)
      [] data = <<"m", "i", "d", ":", "-", "1", ";", "x", ":", "0", ";">> -> None

\* C21: a telemetry datagram from an address of no unit, or with a malformed
\* record, changes nothing of any unit or of the session; every well-formed
\* datagram of a unit, also one that follows a dropped one, sets that unit's
\* detected marker and nothing else.
C21_BadTelemetryDropped ==
    [][last_status' # last_status =>
         LET d == last_status' IN
         IF d.addr = Stranger \/ d.data \in MalformedRecords
         THEN UNCHANGED session
         ELSE /\ detected_marker' =
                     [detected_marker EXCEPT ![UnitAt(d.addr)] = ReportedMarker(d.data)]
              /\ UNCHANGED <<started, labelled, finished, marker_yaw, marker_xy,
                             on_msg_received, on_message_received_for, sent, ready,
                             closing, on_con_lost>>]_vars

\* C21 witness: a unit in flight that had reported pad 8 sent a record whose pad
\* id is no number; the handler raised and the unit still shows pad 8.
C21_Witness ==
    \E u \in Units :
        /\ last_status # None
        /\ last_status.addr = Addr(u) /\ last_status.result = "ValueError"
        /\ detected_marker[u] = Some(8)
        /\ Len(sent[u]) >= 4 /\ ~finished[u]

\* C22 as stated: a step that starts with a unit finished sends that unit
\* nothing; so 'land' goes to a unit at most once and the acknowledgment of
\* 'land' triggers no command.
C22_NoCommandAfterFinished ==
    [][\A u \in Units : finished[u] => sent'[u] = sent[u]]_vars

\* C23 as stated: called on a path pad with |marker_yaw| < 10, next_task returns
\* the forward hop 'go <distance> 0 <altitude> <speed> m<id>' whose pad is the
\* marker id the unit detects, whichever id that is.
C23_HopReferencesDetectedMarker ==
    \A u \in Units :
        (asked[u] # None /\ AskedMarker(u) # None
           /\ AskedMarker(u)[1] \notin EndPadSet
           /\ AskedYaw(u) # None /\ Abs(AskedYaw(u)[1]) < 10) =>
          decision[u] =
              Some(<<TRUE, <<"go", strategy.distance_between_pads, 0, altitude(u),
                             strategy.speed, PyInt(AskedMarker(u)[1])>>>>)

\* C24 as stated: called on a path pad whose yaw or offset is missing, or on an
\* end pad whose offset is missing, next_task returns continue = false and no
\* command (on which the session lands the unit).
C24_MissingSensorDataLands ==
    \A u \in Units :
        (asked[u] # None /\ AskedMarker(u) # None
           /\ IF AskedMarker(u)[1] \in EndPadSet
              THEN AskedXY(u) = None
              ELSE AskedYaw(u) = None \/ AskedXY(u) = None) =>
          decision[u] = Some(<<FALSE, None>>)

\* The done-callback at the head of the loop's queue is the proximity callback
\* of unit u, and this step runs it.
RunsTofCallback(u) ==
    /\ ready # <<>> /\ Head(ready).h = "tof" /\ Head(ready).unit = u
    /\ ready' = Tail(ready)

\* C25 as stated: a unit never has more than one 'EXT tof?' sent and not yet
\* answered; the callback of a response reporting a range >= 500 sends the
\* unit exactly one new poll, that of a response reporting a range < 500 sends
\* none, and after it no poll is ever sent to the unit again.
C25_OnePollOutstanding ==
    /\ [](\A u \in Units : polls[u] <= 1)
    /\ [][\A u \in Units :
            RunsTofCallback(u) =>
              polls'[u] = polls[u] + (IF Head(ready).data[2] >= 500 THEN 1 ELSE 0)]_vars
    /\ [][\A u \in Units :
            guard_landed[u] => polls'[u] <= polls[u]]_vars

\* C26 as stated: once the completion signal is fulfilled both sockets are
\* closed: no step changes what any unit senses and no command is sent.
C26_ShutdownClosesBothSockets ==
    [][on_con_lost = "done" =>
         (detected_marker' = detected_marker /\ sent' = sent)]_vars

\* This step handles an acknowledgment of unit a: the control protocol is handed
\* a datagram from a's address, or a's acknowledgment callback runs.
HandlesAck(a) ==
    \/ ControlDatagramStep /\ last_datagram'.addr = Addr(a)
    \/ RunsMsgCallback(a)

\* This step handles a telemetry datagram of unit a that reports something new.
HandlesTelemetry(a) == detected_marker'[a] # detected_marker[a]

\* The lifecycle flags and the slots of unit u, and the commands sent to it.
LifecycleAndSlots(u) ==
    <<started[u], labelled[u], finished[u], on_msg_received[u], on_tof_received[u],
      Addr(u) \in on_message_received_for, Addr(u) \in on_tof_received_for, sent[u]>>

\* What unit u senses.
Sensed(u) == <<detected_marker[u], marker_yaw[u], marker_xy[u]>>

\* C27: a step that handles an acknowledgment or a telemetry datagram of unit a
\* sends nothing to any other unit b and leaves b's flags, slots and sensed
\* state as they were; a telemetry datagram of a leaves a's own flags and slots
\* alone too.
C27_PerUnitIsolation ==
    [][\A a \in Units :
         /\ (HandlesAck(a) \/ HandlesTelemetry(a)) =>
               \A b \in Units :
                   Addr(b) # Addr(a) =>
                     /\ LifecycleAndSlots(b)' = LifecycleAndSlots(b)
                     /\ Sensed(b)' = Sensed(b)
         /\ HandlesTelemetry(a) => LifecycleAndSlots(a)' = LifecycleAndSlots(a)]_vars

\* C27 witness: one unit has flown, reported pad 8 and been landed, while the
\* other has not even been answered and is as start_all_drones left it.
C27_Witness ==
    \E a, b \in Units :
        /\ a # b
        /\ Len(sent[a]) >= 4 /\ finished[a] /\ detected_marker[a] = Some(8)
        /\ sent[b] = << <<"command">> >> /\ answered[b] = 0 /\ processed[b] = 0
        /\ ~started[b] /\ ~finished[b] /\ ~on_msg_received[b].done
        /\ detected_marker[b] = None

\* How many commands of its task list unit u has been sent: everything sent but
\* 'command' and the Proximity Guard's 'land'.
ListCommandsSent(u) == Len(sent[u]) - 1 - (IF guard_landed[u] THEN 1 ELSE 0)

\* The position in sent[u] of the last command the acknowledgment loop sent,
\* while the loop is still sending: no 'land' of the list has gone out yet, so
\* a 'land' in sent[u] is the guard's.
LastLoopCommand(u) ==
    CHOOSE i \in 1 .. Len(sent[u]) :
        /\ sent[u][i] # <<"land">>
        /\ \A j \in (i + 1) .. Len(sent[u]) : sent[u][j] = <<"land">>

\* C28 as stated: the acknowledgment loop sends unit u the commands of its task
\* list in list order, each once, and each only after the drone has
\* acknowledged the previous command of the loop; the control transport is
\* closed exactly when every task list is empty.
C28_TaskListInOrder ==
    /\ [][\A u \in Units :
            (RunsMsgCallback(u) /\ sent'[u] # sent[u]) =>
              /\ ListCommandsSent(u) < Len(tasks[u])
              /\ sent'[u] = Append(sent[u], tasks[u][ListCommandsSent(u) + 1])
              /\ answered[u] >= LastLoopCommand(u)]_vars
    /\ [](pc = "running" => (closing <=> AllTasksDone(task_list)))

====
